---- MODULE Spec2Model ----
(***************************************************************************)
(* Cache-aside key-value front-end: the monolithic server (main.go) and    *)
(* the modular server (cmd/kvstore with internal/handler,                  *)
(* internal/datastore, internal/upstream).                                 *)
(*                                                                         *)
(* Stored bytes, request payloads and response values are modelled as      *)
(* JSON texts (records tagged by their JSON type); the Go conversions      *)
(* json.Unmarshal / json.Marshal are operators on them.                    *)
(***************************************************************************)
EXTENDS Integers, Sequences, FiniteSets, TLC

VARIABLES
    variant,       \* which server runs: "mono" (main.go) or "modular" (cmd/kvstore)
    upstreamURL,   \* UPSTREAM_URL
    cacheTTL,      \* CACHE_TTL as a duration in ticks, 0 = never expire
    janitorChunk,  \* JANITOR_CHUNK
    now,           \* the clock, time.Now().UnixNano() in ticks
    disk,          \* the RocksDB contents: key -> stored bytes or NoEntry
    hist,          \* history of each key: who wrote its current entry, when, what
    req,           \* the last request served
    resp,          \* its response
    obs,           \* what serving it did: upstream calls per key, failed storage
                   \* operations, keys answered from upstream, how the upstream
                   \* answered, the cleaner's delete batches
    missed,        \* the keys for which the upstream answered not-found in a GET
    cleaner,       \* the cleaner goroutine: "off" (never started), "running",
                   \* "stopped" (returned)
    stop,          \* whether the stop channel of the cleaner has been closed
    conns,         \* the socket connections: whether each is open, the frames
                   \* read from it, the response frames written to it
    tasks          \* the goroutines in the middle of their work: the request each
                   \* connection's handler is serving and the storage operation
                   \* it is at, the cleaner's pending batch, and for each key
                   \* the operation that changed its entry last

\* the process state that serving a request leaves alone
process == <<cleaner, stop, conns, tasks>>

vars == <<variant, upstreamURL, cacheTTL, janitorChunk, now, disk, hist, req, resp, obs,
          missed, cleaner, stop, conns, tasks>>

(***************************************************************************)
(* Bounds of the model.                                                    *)
(***************************************************************************)
\* the clock runs over 1..MaxTime (abstract ticks of time.Now().UnixNano())
MaxTime == 3
\* longest keys sequence of a GET request
MaxKeys == 2

Keys == {"k1", "k2"}
\* ascending key order of the RocksDB iterator
KeyOrder == <<"k1", "k2">>
\* configured TTLs: 0 (CACHE_TTL unset: never expire) and a finite one
TTLs == {0, 1}
\* expiry of the wrapped entry found in the store at start-up
InitExpiry == 2
\* UPSTREAM_URL: "" (replica / authority-of-record mode) or a URL
Upstreams == {"", "http://up"}

\* the chunk size when JANITOR_CHUNK is unset
DefaultChunk == 1000

\* math.MaxInt64, the never-expire expiry (larger than every reachable time)
MaxInt64 == 2147483647

(***************************************************************************)
(* JSON texts.  A number is hi * 2^53 + lo with 0 <= lo < 2^53, so that    *)
(* integers above the float64 mantissa are representable.                  *)
(***************************************************************************)
JStr(s) == [t |-> "str", s |-> s]
JNum(hi, lo) == [t |-> "num", hi |-> hi, lo |-> lo]
JArr == [t |-> "arr"]
JObj(f) == [t |-> "obj", f |-> f]
JNull == [t |-> "null"]
\* bytes that are not JSON at all
Garbage == [t |-> "garbage"]
\* a zero-length byte slice
EmptyRaw == [t |-> "empty"]
\* no entry under the key (v.Exists() == false)
NoEntry == [t |-> "absent"]

\* len(raw) for a json.RawMessage
RawLen(raw) ==
    CASE raw.t = "empty" -> 0
      [] raw.t = "str" -> Len(raw.s) + 2
      [] raw.t = "null" -> 4
      [] raw.t = "num" -> 1
      [] raw.t = "arr" -> 2
      [] raw.t = "obj" -> 2
      [] OTHER -> 1

\* whether the bytes are a valid JSON text
ValidJSON(raw) == raw.t \in {"str", "num", "arr", "obj", "null"}

\* conversion of a JSON integer to float64: exact up to 2^53, above it the
\* mantissa has steps of 2 and ties round to the even mantissa
\* (modelled for hi <= 1, i.e. numbers below 2^54)
Float64(n) ==
    IF n.hi = 0 THEN n
    ELSE LET down == (n.lo \div 2) * 2
             up == down + 2
         IN IF n.lo = down THEN n
            ELSE IF (down \div 2) % 2 = 0 THEN JNum(n.hi, down)
            ELSE JNum(n.hi, up)

\* json.Unmarshal(raw, &v) with v interface{}, the error ignored: v stays nil
\* (JNull) when raw is not valid JSON; numbers become float64.  The result is
\* given as the JSON text json.Marshal(v) produces for the response.
UnmarshalIface(raw) ==
    IF ~ValidJSON(raw) THEN JNull
    ELSE IF raw.t = "num" THEN Float64(raw)
    ELSE raw

(***************************************************************************)
(* The RocksDB primitives.  fl is the set of <<operation, key>> pairs that *)
(* the storage engine fails while the current request is served.           *)
(***************************************************************************)
dbGet(db, key, fl) ==
    IF <<"get", key>> \in fl THEN [err |-> "io", v |-> NoEntry]
    ELSE [err |-> "", v |-> db[key]]

dbPut(db, key, data, fl) ==
    IF <<"put", key>> \in fl THEN [err |-> "io", db |-> db]
    ELSE [err |-> "", db |-> [db EXCEPT ![key] = data]]

dbDelete(db, key, fl) ==
    IF <<"delete", key>> \in fl THEN [err |-> "io", db |-> db]
    ELSE [err |-> "", db |-> [db EXCEPT ![key] = NoEntry]]

(***************************************************************************)
(* Entry codec.                                                            *)
(***************************************************************************)
\* json.Unmarshal(bytes, &w) with w a dbEntry / DBEntry: a JSON object decodes
\* (unknown fields ignored, missing fields left zero), JSON null decodes to the
\* zero entry, every other JSON type and non-JSON bytes are an error
UnmarshalEntry(b) ==
    IF b.t = "obj" THEN
        [err |-> FALSE,
         Expiry |-> IF "expiry" \in DOMAIN b.f THEN b.f.expiry ELSE 0,
         Value |-> IF "value" \in DOMAIN b.f THEN b.f.value ELSE EmptyRaw]
    ELSE IF b.t = "null" THEN [err |-> FALSE, Expiry |-> 0, Value |-> EmptyRaw]
    ELSE [err |-> TRUE, Expiry |-> 0, Value |-> EmptyRaw]

\* json.Marshal(&w): fails when the RawMessage value is not valid JSON
MarshalEntry(expiry, value) ==
    IF ValidJSON(value)
    THEN [err |-> "", data |-> JObj([expiry |-> expiry, value |-> value])]
    ELSE [err |-> "marshal", data |-> EmptyRaw]

(***************************************************************************)
(* The upstream peer.  It holds a value for the keys of UpstreamHas; up is  *)
(* how it answers the calls of one request: "ok" (status 200 and an OK     *)
(* envelope with the key's value or null), a 404, a 500, a network failure *)
(* or timeout, a 200 with an ERR envelope, a 200 with an undecodable body. *)
(***************************************************************************)
UpModes == {"ok", "status404", "status500", "neterr", "errEnvelope", "malformed"}
\* the modes the spec counts as upstream errors (not-found is a miss)
UpFailModes == {"status500", "neterr", "errEnvelope", "malformed"}
\* the value the upstream holds for a key
UpstreamValue(key) == JStr("up")
UpstreamHas == {"k1"}

\* the storage faults of one request touching the keys ks: none, or one
\* failing operation on one key
FaultChoices(ops, ks) == {{}} \cup {{<<op, k>>} : op \in ops, k \in ks}

(***************************************************************************)
(* Monolithic server, main.go                                              *)
(***************************************************************************)
\* writeEntry that applies the TTL in replica mode too
writeEntry_ignoreReplica(db, key, raw, ttl, replicaMode, fl) ==
    LET expiry == IF ttl = 0 THEN MaxInt64 ELSE now + ttl
        m == MarshalEntry(expiry, raw)
    IN IF m.err # "" THEN [err |-> m.err, db |-> db, failed |-> {}]
       ELSE LET p == dbPut(db, key, m.data, fl)
            IN [err |-> p.err, db |-> p.db,
                failed |-> IF p.err # "" THEN {<<"put", key>>} ELSE {}]

\* writeEntry that ignores the TTL: every entry is stored never-expiring
writeEntry_noTTL(db, key, raw, ttl, replicaMode, fl) ==
    LET m == MarshalEntry(MaxInt64, raw)
    IN IF m.err # "" THEN [err |-> m.err, db |-> db, failed |-> {}]
       ELSE LET p == dbPut(db, key, m.data, fl)
            IN [err |-> p.err, db |-> p.db,
                failed |-> IF p.err # "" THEN {<<"put", key>>} ELSE {}]

\* a writeEntry that detects a conflict: it keeps the entry a key already has
writeEntry_ifAbsent(db, key, raw, ttl, replicaMode, fl) ==
    IF db[key] # NoEntry THEN [err |-> "", db |-> db, failed |-> {}]
    ELSE LET expiry == IF replicaMode \/ ttl = 0 THEN MaxInt64 ELSE now + ttl
             m == MarshalEntry(expiry, raw)
         IN IF m.err # "" THEN [err |-> m.err, db |-> db, failed |-> {}]
            ELSE LET p == dbPut(db, key, m.data, fl)
                 IN [err |-> p.err, db |-> p.db,
                     failed |-> IF p.err # "" THEN {<<"put", key>>} ELSE {}]

writeEntry(db, key, raw, ttl, replicaMode, fl) ==
    LET expiry == IF replicaMode \/ ttl = 0 THEN MaxInt64 ELSE now + ttl
        m == MarshalEntry(expiry, raw)
    IN IF m.err # "" THEN [err |-> m.err, db |-> db, failed |-> {}]
       ELSE LET p == dbPut(db, key, m.data, fl)
            IN [err |-> p.err, db |-> p.db,
                failed |-> IF p.err # "" THEN {<<"put", key>>} ELSE {}]

\* a deleteEntry that reports a key without entry as an error
deleteEntry_strict(db, key, fl) ==
    IF db[key] = NoEntry THEN [err |-> "not found", db |-> db, failed |-> {}]
    ELSE LET d == dbDelete(db, key, fl)
         IN [err |-> d.err, db |-> d.db,
             failed |-> IF d.err # "" THEN {<<"delete", key>>} ELSE {}]

deleteEntry(db, key, fl) ==
    LET d == dbDelete(db, key, fl)
    IN [err |-> d.err, db |-> d.db,
        failed |-> IF d.err # "" THEN {<<"delete", key>>} ELSE {}]

readEntry(db, key, ttl, replicaMode, fl) ==
    LET g == dbGet(db, key, fl)
        w == UnmarshalEntry(g.v)
    IN IF g.err # "" THEN
           [raw |-> EmptyRaw, ok |-> FALSE, err |-> g.err, db |-> db,
            failed |-> {<<"get", key>>}]
       ELSE IF g.v = NoEntry THEN
           [raw |-> EmptyRaw, ok |-> FALSE, err |-> "", db |-> db, failed |-> {}]
       ELSE IF ~w.err THEN
           IF w.Expiry # MaxInt64 /\ now > w.Expiry THEN
               \* expired -> delete (error ignored) and miss
               LET d == deleteEntry(db, key, fl)
               IN [raw |-> EmptyRaw, ok |-> FALSE, err |-> "", db |-> d.db,
                   failed |-> d.failed]
           ELSE [raw |-> w.Value, ok |-> TRUE, err |-> "", db |-> db, failed |-> {}]
       ELSE IF replicaMode THEN
           [raw |-> g.v, ok |-> TRUE, err |-> "", db |-> db, failed |-> {}]
       ELSE \* ephemeral mode: wrap the legacy bytes, write back best-effort
           LET wr == writeEntry(db, key, g.v, ttl, FALSE, fl)
           IN [raw |-> g.v, ok |-> TRUE, err |-> "", db |-> wr.db,
               failed |-> wr.failed]

\* listAllEntries without the expiry test: every decodable entry is listed
listAllEntries_all(db, replicaMode) ==
    LET present == {k \in Keys : db[k] # NoEntry}
        W(k) == UnmarshalEntry(db[k])
        incl == {k \in present : IF ~W(k).err THEN TRUE ELSE replicaMode}
    IN [k \in incl |-> IF ~W(k).err THEN UnmarshalIface(W(k).Value)
                       ELSE UnmarshalIface(db[k])]

\* the entries LIST returns: key -> decoded value, for the keys it includes
listAllEntries(db, replicaMode) ==
    LET present == {k \in Keys : db[k] # NoEntry}
        W(k) == UnmarshalEntry(db[k])
        incl == {k \in present :
                    IF ~W(k).err
                    THEN replicaMode \/ W(k).Expiry = MaxInt64 \/ W(k).Expiry > now
                    ELSE replicaMode}
    IN [k \in incl |-> IF ~W(k).err THEN UnmarshalIface(W(k).Value)
                       ELSE UnmarshalIface(db[k])]

\* fetchFromUpstream with the upstream == "" test inverted: no call is made
fetchFromUpstream_nocall(upstream, key, up) ==
    [raw |-> EmptyRaw, found |-> FALSE, err |-> "", called |-> FALSE]

\* one call of the upstream; called says whether an HTTP request was made
fetchFromUpstream(upstream, key, up) ==
    IF upstream = "" THEN
        [raw |-> EmptyRaw, found |-> FALSE, err |-> "", called |-> FALSE]
    ELSE IF up = "neterr" THEN
        [raw |-> EmptyRaw, found |-> FALSE, err |-> "neterr", called |-> TRUE]
    ELSE IF up = "status404" THEN
        [raw |-> EmptyRaw, found |-> FALSE, err |-> "", called |-> TRUE]
    ELSE IF up = "status500" THEN
        [raw |-> EmptyRaw, found |-> FALSE, err |-> "upstream status", called |-> TRUE]
    ELSE IF up = "malformed" THEN
        [raw |-> EmptyRaw, found |-> FALSE, err |-> "decode", called |-> TRUE]
    ELSE IF up = "errEnvelope" THEN
        [raw |-> EmptyRaw, found |-> FALSE, err |-> "upstream error", called |-> TRUE]
    ELSE IF key \notin UpstreamHas THEN
        [raw |-> EmptyRaw, found |-> FALSE, err |-> "", called |-> TRUE]
    ELSE [raw |-> UnmarshalIface(UpstreamValue(key)), found |-> TRUE, err |-> "",
          called |-> TRUE]

\* the state of a request while its items are processed
StartOf(db) ==
    [db |-> db, data |-> <<>>, calls |-> [k \in Keys |-> 0], failed |-> {},
     served |-> {}, notfound |-> {}, done |-> <<>>, err |-> ""]

\* a GET loop body that leaves the keys it does not find out of the results
GetKey_omitMissing(st, key, ttl, upstream, fl, up) ==
    LET replicaMode == upstream = ""
        r == readEntry(st.db, key, ttl, replicaMode, fl)
        s1 == [st EXCEPT !.db = r.db, !.failed = @ \cup r.failed]
        f == fetchFromUpstream(upstream, key, up)
        s2 == [s1 EXCEPT !.calls[key] = @ + (IF f.called THEN 1 ELSE 0)]
        wr == writeEntry(s2.db, key, f.raw, ttl, FALSE, fl)
    IN IF r.err # "" THEN [s1 EXCEPT !.err = r.err]
       ELSE IF r.ok THEN [s1 EXCEPT !.data = (key :> UnmarshalIface(r.raw)) @@ @]
       ELSE IF ~replicaMode THEN
           IF f.err # "" THEN [s2 EXCEPT !.err = f.err]
           ELSE IF f.found THEN
               IF wr.err # "" THEN
                   [s2 EXCEPT !.err = wr.err, !.failed = @ \cup wr.failed]
               ELSE [s2 EXCEPT !.db = wr.db,
                                !.data = (key :> UnmarshalIface(f.raw)) @@ @,
                                !.served = @ \cup {key}]
           ELSE [s2 EXCEPT !.notfound = @ \cup {key}]
       ELSE s1

\* a GET loop body that caches the upstream's not-found as a stored null
GetKey_negcache(st, key, ttl, upstream, fl, up) ==
    LET replicaMode == upstream = ""
        r == readEntry(st.db, key, ttl, replicaMode, fl)
        s1 == [st EXCEPT !.db = r.db, !.failed = @ \cup r.failed]
        f == fetchFromUpstream(upstream, key, up)
        s2 == [s1 EXCEPT !.calls[key] = @ + (IF f.called THEN 1 ELSE 0)]
        wr == writeEntry(s2.db, key, IF f.found THEN f.raw ELSE JNull, ttl, FALSE, fl)
    IN IF r.err # "" THEN [s1 EXCEPT !.err = r.err]
       ELSE IF r.ok THEN [s1 EXCEPT !.data = (key :> UnmarshalIface(r.raw)) @@ @]
       ELSE IF ~replicaMode THEN
           IF f.err # "" THEN [s2 EXCEPT !.err = f.err]
           ELSE IF wr.err # "" THEN
               [s2 EXCEPT !.err = wr.err, !.failed = @ \cup wr.failed]
           ELSE IF f.found THEN
               [s2 EXCEPT !.db = wr.db,
                          !.data = (key :> UnmarshalIface(f.raw)) @@ @,
                          !.served = @ \cup {key}]
           ELSE [s2 EXCEPT !.db = wr.db, !.data = (key :> JNull) @@ @,
                            !.notfound = @ \cup {key}]
       ELSE [s1 EXCEPT !.data = (key :> JNull) @@ @]

\* the body of the GET loop for one key (main.go 245-276); st.err # "" is the
\* early return of an ERR response
GetKey(st, key, ttl, upstream, fl, up) ==
    LET replicaMode == upstream = ""
        r == readEntry(st.db, key, ttl, replicaMode, fl)
        s1 == [st EXCEPT !.db = r.db, !.failed = @ \cup r.failed]
        f == fetchFromUpstream(upstream, key, up)
        s2 == [s1 EXCEPT !.calls[key] = @ + (IF f.called THEN 1 ELSE 0)]
        wr == writeEntry(s2.db, key, f.raw, ttl, FALSE, fl)
    IN IF r.err # "" THEN [s1 EXCEPT !.err = r.err]
       ELSE IF r.ok THEN [s1 EXCEPT !.data = (key :> UnmarshalIface(r.raw)) @@ @]
       ELSE IF ~replicaMode THEN
           IF f.err # "" THEN [s2 EXCEPT !.err = f.err]
           ELSE IF f.found THEN
               IF wr.err # "" THEN
                   [s2 EXCEPT !.err = wr.err, !.failed = @ \cup wr.failed]
               ELSE [s2 EXCEPT !.db = wr.db,
                                !.data = (key :> UnmarshalIface(f.raw)) @@ @,
                                !.served = @ \cup {key}]
           ELSE [s2 EXCEPT !.data = (key :> JNull) @@ @,
                            !.notfound = @ \cup {key}]
       ELSE [s1 EXCEPT !.data = (key :> JNull) @@ @]

RECURSIVE GetLoop(_, _, _, _, _, _, _)
GetLoop(st, keys, i, ttl, upstream, fl, up) ==
    IF i > Len(keys) \/ st.err # "" THEN st
    ELSE GetLoop(GetKey(st, keys[i], ttl, upstream, fl, up), keys, i + 1,
                 ttl, upstream, fl, up)

\* the body of the UPDATE loop for one item (main.go 290-300)
UpdateItem(st, key, raw, ttl, upstream, fl) ==
    LET replicaMode == upstream = ""
        s1 == [st EXCEPT !.done = Append(@, key)]
        d == deleteEntry(st.db, key, fl)
        w == writeEntry(st.db, key, raw, ttl, replicaMode, fl)
    IN IF RawLen(raw) = 0 THEN
           IF d.err # "" THEN [s1 EXCEPT !.err = d.err, !.failed = @ \cup d.failed]
           ELSE [s1 EXCEPT !.db = d.db]
       ELSE IF w.err # "" THEN [s1 EXCEPT !.err = w.err, !.failed = @ \cup w.failed]
       ELSE [s1 EXCEPT !.db = w.db]

\* an UPDATE loop that goes on with the remaining items after a failure
RECURSIVE UpdateLoop_continue(_, _, _, _, _, _, _)
UpdateLoop_continue(st, items, order, i, ttl, upstream, fl) ==
    IF i > Len(order) THEN st
    ELSE UpdateLoop_continue(
             UpdateItem(st, order[i], items[order[i]], ttl, upstream, fl),
             items, order, i + 1, ttl, upstream, fl)

\* order is the order in which Go's map iteration yields the items
RECURSIVE UpdateLoop(_, _, _, _, _, _, _)
UpdateLoop(st, items, order, i, ttl, upstream, fl) ==
    IF i > Len(order) \/ st.err # "" THEN st
    ELSE UpdateLoop(UpdateItem(st, order[i], items[order[i]], ttl, upstream, fl),
                    items, order, i + 1, ttl, upstream, fl)

\* a handleRequest that answers a request of unknown type like a LIST
handleRequest_unknownAsList(db, rq, order, ttl, upstream, fl, up) ==
    CASE rq.type = "GET" -> GetLoop(StartOf(db), rq.keys, 1, ttl, upstream, fl, up)
      [] rq.type = "UPDATE" ->
            UpdateLoop(StartOf(db), rq.items, order, 1, ttl, upstream, fl)
      [] OTHER -> [StartOf(db) EXCEPT !.data = listAllEntries(db, upstream = "")]

\* handleRequest: the final request state, from which the response is built
handleRequest(db, rq, order, ttl, upstream, fl, up) ==
    CASE rq.type = "GET" -> GetLoop(StartOf(db), rq.keys, 1, ttl, upstream, fl, up)
      [] rq.type = "LIST" ->
            [StartOf(db) EXCEPT !.data = listAllEntries(db, upstream = "")]
      [] rq.type = "UPDATE" ->
            UpdateLoop(StartOf(db), rq.items, order, 1, ttl, upstream, fl)
      [] OTHER -> [StartOf(db) EXCEPT !.err = "unknown type"]

\* the Response envelope
ResponseOf(st) ==
    IF st.err # "" THEN [type |-> "ERR", error |-> st.err, data |-> <<>>]
    ELSE [type |-> "OK", error |-> "", data |-> st.data]

(***************************************************************************)
(* Modular server: internal/datastore (RocksDB), internal/upstream         *)
(* (Client), internal/handler (Handler)                                    *)
(***************************************************************************)
RocksDB_Get(db, key, fl) ==
    LET g == dbGet(db, key, fl)
        e == UnmarshalEntry(g.v)
    IN IF g.err # "" THEN
           [raw |-> EmptyRaw, ok |-> FALSE, err |-> g.err, db |-> db,
            failed |-> {<<"get", key>>}]
       ELSE IF g.v = NoEntry THEN
           [raw |-> EmptyRaw, ok |-> FALSE, err |-> "", db |-> db, failed |-> {}]
       ELSE IF e.err THEN
           [raw |-> EmptyRaw, ok |-> FALSE, err |-> "decode", db |-> db, failed |-> {}]
       ELSE IF e.Expiry # MaxInt64 /\ now > e.Expiry THEN
           LET d == dbDelete(db, key, fl)
           IN [raw |-> EmptyRaw, ok |-> FALSE, err |-> "", db |-> d.db,
               failed |-> IF d.err # "" THEN {<<"delete", key>>} ELSE {}]
       ELSE [raw |-> e.Value, ok |-> TRUE, err |-> "", db |-> db, failed |-> {}]

\* the Marshal error is ignored: invalid value bytes store an empty value
RocksDB_Put(db, key, value, ttl, fl) ==
    LET expiry == IF ttl = 0 THEN MaxInt64 ELSE now + ttl
        m == MarshalEntry(expiry, value)
        p == dbPut(db, key, m.data, fl)
    IN [err |-> p.err, db |-> p.db,
        failed |-> IF p.err # "" THEN {<<"put", key>>} ELSE {}]

RocksDB_Delete(db, key, fl) ==
    LET d == dbDelete(db, key, fl)
    IN [err |-> d.err, db |-> d.db,
        failed |-> IF d.err # "" THEN {<<"delete", key>>} ELSE {}]

RocksDB_List(db) ==
    LET E(k) == UnmarshalEntry(db[k])
        incl == {k \in Keys : /\ db[k] # NoEntry
                              /\ ~E(k).err
                              /\ (E(k).Expiry = MaxInt64 \/ E(k).Expiry > now)}
    IN [k \in incl |-> UnmarshalIface(E(k).Value)]

\* upstream.Client.Fetch (url is c.URL)
Client_Fetch(url, key, up) ==
    IF url = "" THEN
        [raw |-> EmptyRaw, found |-> FALSE, err |-> "", called |-> FALSE]
    ELSE IF up = "neterr" THEN
        [raw |-> EmptyRaw, found |-> FALSE, err |-> "neterr", called |-> TRUE]
    ELSE IF up \in {"status404", "status500"} THEN
        [raw |-> EmptyRaw, found |-> FALSE, err |-> "", called |-> TRUE]
    ELSE IF up = "malformed" THEN
        [raw |-> EmptyRaw, found |-> FALSE, err |-> "decode", called |-> TRUE]
    ELSE IF up = "errEnvelope" THEN
        [raw |-> EmptyRaw, found |-> FALSE, err |-> "", called |-> TRUE]
    ELSE IF key \notin UpstreamHas THEN
        [raw |-> EmptyRaw, found |-> FALSE, err |-> "", called |-> TRUE]
    ELSE [raw |-> UnmarshalIface(UpstreamValue(key)), found |-> TRUE, err |-> "",
          called |-> TRUE]

\* the body of the GET loop of Handler.Serve for one key (part_003 37-63);
\* h.Upstream is nil exactly when url = ""
ServeGetKey(st, k, ttl, url, fl, up) ==
    LET r == RocksDB_Get(st.db, k, fl)
        s1 == [st EXCEPT !.db = r.db, !.failed = @ \cup r.failed]
        f == Client_Fetch(url, k, up)
        s2 == [s1 EXCEPT !.calls[k] = @ + (IF f.called THEN 1 ELSE 0)]
        p == RocksDB_Put(s2.db, k, f.raw, ttl, fl)
    IN IF r.err # "" THEN [s1 EXCEPT !.err = r.err]
       ELSE IF r.ok THEN [s1 EXCEPT !.data = (k :> UnmarshalIface(r.raw)) @@ @]
       ELSE IF url # "" THEN
           IF f.err # "" THEN [s2 EXCEPT !.err = f.err]
           ELSE IF f.found THEN
               \* the error of Put is ignored
               [s2 EXCEPT !.db = p.db, !.failed = @ \cup p.failed,
                          !.data = (k :> UnmarshalIface(f.raw)) @@ @,
                          !.served = @ \cup {k}]
           ELSE [s2 EXCEPT !.data = (k :> JNull) @@ @,
                            !.notfound = @ \cup {k}]
       ELSE [s1 EXCEPT !.data = (k :> JNull) @@ @]

RECURSIVE ServeGetLoop(_, _, _, _, _, _, _)
ServeGetLoop(st, keys, i, ttl, url, fl, up) ==
    IF i > Len(keys) \/ st.err # "" THEN st
    ELSE ServeGetLoop(ServeGetKey(st, keys[i], ttl, url, fl, up), keys, i + 1,
                      ttl, url, fl, up)

\* the body of the UPDATE loop of Handler.Serve for one item (part_003 74-84)
ServeUpdateItem(st, k, raw, ttl, fl) ==
    LET s1 == [st EXCEPT !.done = Append(@, k)]
        d == RocksDB_Delete(st.db, k, fl)
        p == RocksDB_Put(st.db, k, raw, ttl, fl)
    IN IF RawLen(raw) = 0 THEN
           IF d.err # "" THEN [s1 EXCEPT !.err = d.err, !.failed = @ \cup d.failed]
           ELSE [s1 EXCEPT !.db = d.db]
       ELSE IF p.err # "" THEN [s1 EXCEPT !.err = p.err, !.failed = @ \cup p.failed]
       ELSE [s1 EXCEPT !.db = p.db]

RECURSIVE ServeUpdateLoop(_, _, _, _, _, _)
ServeUpdateLoop(st, items, order, i, ttl, fl) ==
    IF i > Len(order) \/ st.err # "" THEN st
    ELSE ServeUpdateLoop(ServeUpdateItem(st, order[i], items[order[i]], ttl, fl),
                         items, order, i + 1, ttl, fl)

\* Handler.Serve: the final request state, from which the response is built
Handler_Serve(db, rq, order, ttl, url, fl, up) ==
    CASE rq.type = "GET" -> ServeGetLoop(StartOf(db), rq.keys, 1, ttl, url, fl, up)
      [] rq.type = "LIST" -> [StartOf(db) EXCEPT !.data = RocksDB_List(db)]
      [] rq.type = "UPDATE" -> ServeUpdateLoop(StartOf(db), rq.items, order, 1, ttl, fl)
      [] OTHER -> [StartOf(db) EXCEPT !.err = "unknown type"]

\* cleaner.runOnce (part_002 28-37): lists the store and deletes nothing
runOnce(db) ==
    [db |-> db, listed |-> DOMAIN RocksDB_List(db), batches |-> <<>>]

\* a scan that ends at the first batch whose db.Write fails
RECURSIVE CleanerScan_abort(_, _, _, _, _)
CleanerScan_abort(sw, db0, i, chunkSize, writeFails) ==
    LET Flush(x) ==
            LET n == Len(x.batches) + 1
            IN [x EXCEPT !.db = IF n \in writeFails THEN @
                                ELSE [k \in Keys |-> IF k \in x.batch THEN NoEntry
                                                     ELSE @[k]],
                         !.batches = Append(@, [keys |-> x.batch,
                                                ok |-> n \notin writeFails]),
                         !.batch = {}, !.count = 0]
        Failed(x) == \E n \in 1..Len(x.batches) : ~x.batches[n].ok
    IN IF Failed(sw) THEN sw
       ELSE IF i > Len(KeyOrder) THEN
           IF sw.count > 0 THEN Flush(sw) ELSE sw
       ELSE LET k == KeyOrder[i]
                w == UnmarshalEntry(db0[k])
                hit == db0[k] # NoEntry /\ ~w.err
                         /\ w.Expiry # MaxInt64 /\ w.Expiry <= now
                s1 == IF hit THEN [sw EXCEPT !.batch = @ \cup {k}, !.count = @ + 1]
                      ELSE sw
                s2 == IF db0[k] # NoEntry /\ s1.count >= chunkSize THEN Flush(s1)
                      ELSE s1
            IN CleanerScan_abort(s2, db0, i + 1, chunkSize, writeFails)

\* startCleaner, one tick of the ticker (main.go 165-190): the scan reads the
\* iterator's snapshot db0; writeFails is the set of batch numbers whose
\* db.Write fails (the error is ignored)
RECURSIVE CleanerScan(_, _, _, _, _)
CleanerScan(sw, db0, i, chunkSize, writeFails) ==
    LET Flush(x) ==
            LET n == Len(x.batches) + 1
            IN [x EXCEPT !.db = IF n \in writeFails THEN @
                                ELSE [k \in Keys |-> IF k \in x.batch THEN NoEntry
                                                     ELSE @[k]],
                         !.batches = Append(@, [keys |-> x.batch,
                                                ok |-> n \notin writeFails]),
                         !.batch = {}, !.count = 0]
    IN IF i > Len(KeyOrder) THEN
           IF sw.count > 0 THEN Flush(sw) ELSE sw
       ELSE LET k == KeyOrder[i]
                w == UnmarshalEntry(db0[k])
                hit == db0[k] # NoEntry /\ ~w.err
                         /\ w.Expiry # MaxInt64 /\ w.Expiry <= now
                s1 == IF hit THEN [sw EXCEPT !.batch = @ \cup {k}, !.count = @ + 1]
                      ELSE sw
                s2 == IF db0[k] # NoEntry /\ s1.count >= chunkSize THEN Flush(s1)
                      ELSE s1
            IN CleanerScan(s2, db0, i + 1, chunkSize, writeFails)

\* a cleaner that flushes only when the batch exceeds the chunk size
startCleaner_overfull(db, chunkSize, writeFails) ==
    CleanerScan([db |-> db, batch |-> {}, count |-> 0, batches |-> <<>>],
                db, 1, chunkSize + 1, writeFails)

startCleaner(db, chunkSize, writeFails) ==
    CleanerScan([db |-> db, batch |-> {}, count |-> 0, batches |-> <<>>],
                db, 1, chunkSize, writeFails)

(***************************************************************************)
(* Inputs                                                                  *)
(***************************************************************************)
GetKeySeqs == UNION {[1..n -> Keys] : n \in 0..MaxKeys}
\* item values as json.RawMessage after decoding the request: "" (the empty
\* JSON string) and the integer 2^53 + 1
UpdateValues == {JStr(""), JNum(1, 1)}
\* request types the switch of handleRequest / Handler.Serve has no case for
\* (the cases are matched case-sensitively)
UnknownTypes == {"PING", "get"}
ItemMaps == UNION {[S -> UpdateValues] : S \in SUBSET Keys}
Orders(S) == {o \in UNION {[1..n -> S] : n \in {Cardinality(S)}} :
                 \A a, b \in 1..Len(o) : a # b => o[a] # o[b]}
\* store contents found at start-up: nothing, undecodable bytes, a legacy raw
\* string, a legacy raw object, a wrapped entry that expires at InitExpiry
LegacyRaws == {JStr("old"), JObj([bar |-> JNum(0, 123)])}
InitEntries ==
    {NoEntry, Garbage} \cup LegacyRaws
      \cup {JObj([expiry |-> InitExpiry, value |-> JStr("old")])}

\* at start-up at most one key holds a pre-existing entry
InitDisks ==
    {d \in [Keys -> InitEntries] : \E k \in Keys : \A j \in Keys \ {k} : d[j] = NoEntry}

Never == [by |-> "never", at |-> 0, val |-> NoEntry]
AtInit == [by |-> "init", at |-> 0, val |-> NoEntry]
Other == [by |-> "other", at |-> 0, val |-> NoEntry]
\* no HTTP answer
NoHttp == [status |-> 0, body |-> "", text |-> ""]
NoObs == [calls |-> [k \in Keys |-> 0], failed |-> {}, up |-> "none",
          served |-> {}, notfound |-> {}, retried |-> {}, done |-> <<>>,
          batches |-> <<>>, http |-> NoHttp]
NoResp == [type |-> "", error |-> "", data |-> <<>>]
NoReq == [type |-> "", keys |-> <<>>, items |-> <<>>]

\* the socket connections the model follows
Conns == {"c1", "c2"}
\* a connection not yet accepted: state is "none", "open" or "closed"; frame is
\* the kind of the last frame read, out the type of the last response frame
\* written, nread / nwritten count the frames read and written
NoConn == [state |-> "none", nread |-> 0, nwritten |-> 0, frame |-> "", out |-> ""]
NoConns == [c \in Conns |-> NoConn]

\* a handler goroutine that serves no request
NoTask == [op |-> "", pc |-> "idle", key |-> "", val |-> NoEntry, seen |-> NoEntry,
           out |-> NoEntry]
\* no storage operation has changed the key's entry
NoChange == [op |-> "", who |-> "", acked |-> FALSE]
NoTasks == [run |-> [c \in Conns |-> NoTask],
            janitor |-> [pc |-> "idle", batch |-> {}],
            last |-> [k \in Keys |-> NoChange]]

\* a cleaner that is started whatever the TTL
cleanerStarted_always(ttl) == TRUE

\* main.go 362, cmd/kvstore/main.go 99: the cleaner is started when ttl > 0
cleanerStarted(ttl) == ttl > 0

\* the state of the store and of the request being served at start-up
InitServing ==
    /\ now = 1
    /\ hist = [k \in Keys |-> IF disk[k] = NoEntry THEN Never ELSE AtInit]
    /\ req = NoReq
    /\ resp = NoResp
    /\ obs = NoObs
    /\ missed = {}
    /\ cleaner = IF cleanerStarted(cacheTTL) THEN "running" ELSE "off"
    /\ stop = FALSE
    /\ conns = NoConns
    /\ tasks = NoTasks

InitCommon ==
    /\ disk \in InitDisks
    /\ InitServing

\* main.go 314-364: configuration from the environment
Init ==
    /\ variant = "mono"
    /\ upstreamURL \in Upstreams
    /\ cacheTTL \in TTLs
    /\ janitorChunk = DefaultChunk
    /\ InitCommon

(***************************************************************************)
(* The HTTP transports                                                     *)
(***************************************************************************)
\* the POST / handler of main.go 420-433 once handleRequest has returned rs
httpHandler(rs) ==
    IF rs.type = "ERR" THEN [status |-> 400, body |-> "text", text |-> rs.error]
    ELSE [status |-> 200, body |-> "json", text |-> ""]

\* transport.NewHTTPRouter (http.go 11-29) once serve has returned (out, err);
\* out is the marshalled response envelope rs
NewHTTPRouter(rs, err) ==
    IF err # "" THEN [status |-> 500, body |-> "text", text |-> err]
    ELSE [status |-> 200, body |-> "json", text |-> ""]

(***************************************************************************)
(* Actions of the monolithic server                                        *)
(***************************************************************************)
\* the effect of a served request whose final request state is st
Respond(st, rq, up) ==
    LET rs == ResponseOf(st)
    IN /\ disk' = st.db
       /\ req' = rq
       /\ resp' = rs
       /\ obs' = [NoObs EXCEPT !.calls = st.calls, !.failed = st.failed,
                                !.served = st.served,
                                !.notfound = st.notfound,
                                !.retried = st.notfound \cap missed,
                                !.done = st.done,
                                \* the answer when the request came by HTTP;
                                \* serveFn returns (json.Marshal(resp), nil)
                                !.http = IF variant \in {"mono", "badger"}
                                         THEN httpHandler(rs)
                                         ELSE NewHTTPRouter(rs, ""),
                                !.up = IF rq.type = "GET" THEN up ELSE "none"]
       /\ missed' = missed \cup st.notfound
       /\ hist' = [k \in Keys |->
             IF rq.type = "UPDATE" /\ k \in DOMAIN rq.items /\ rs.type = "OK"
             THEN IF RawLen(rq.items[k]) = 0
                  THEN (IF disk[k] = NoEntry THEN hist[k] ELSE Other)
                  ELSE [by |-> "update", at |-> now, val |-> rq.items[k]]
             ELSE IF rq.type = "GET" /\ k \in st.served /\ rs.type = "OK"
             THEN [by |-> "upstream", at |-> now, val |-> rs.data[k]]
             ELSE IF st.db[k] # disk[k] THEN Other
             ELSE hist[k]]
       /\ UNCHANGED <<variant, upstreamURL, cacheTTL, janitorChunk, now, cleaner, stop, tasks>>

\* the handler serving one decoded request, whatever transport brought it
\* (main.go 410, 426)
Serve(rq, order, fl, up) ==
    /\ Respond(handleRequest(disk, rq, order, cacheTTL, upstreamURL, fl, up), rq, up)
    /\ UNCHANGED conns

\* the environment of one request shows at most one anomaly: a storage fault
\* or an upstream answer other than "ok"
OneAnomaly(fl, up) == fl = {} \/ up = "ok"
UpFor(u) == IF u = "" THEN {"ok"} ELSE UpModes
Range(f) == {f[x] : x \in DOMAIN f}

Get ==
    /\ variant = "mono"
    /\ req = NoReq
    /\ \E keys \in GetKeySeqs, up \in UpFor(upstreamURL) :
          \E fl \in FaultChoices({"get", "put", "delete"}, Range(keys)) :
             /\ OneAnomaly(fl, up)
             /\ Serve([type |-> "GET", keys |-> keys, items |-> <<>>], <<>>, fl, up)

List ==
    /\ variant = "mono"
    /\ req = NoReq
    /\ Serve([type |-> "LIST", keys |-> <<>>, items |-> <<>>], <<>>, {}, "ok")

Update ==
    /\ variant = "mono"
    /\ req = NoReq
    /\ \E items \in ItemMaps :
          \E order \in Orders(DOMAIN items),
             fl \in FaultChoices({"put", "delete"}, DOMAIN items) :
             Serve([type |-> "UPDATE", keys |-> <<>>, items |-> items], order, fl,
                   "ok")

Unknown ==
    /\ variant = "mono"
    /\ req = NoReq
    /\ \E t \in UnknownTypes :
          Serve([type |-> t, keys |-> <<>>, items |-> <<>>], <<>>, {}, "ok")

\* one sweep of the cleaner, which runs only when main started it
\* (main.go 362-364)
Sweep ==
    /\ variant = "mono"
    /\ req = NoReq
    /\ cleaner = "running"
    /\ \E writeFails \in SUBSET (1..Cardinality(Keys)) :
          LET sw == startCleaner(disk, janitorChunk, writeFails)
          IN /\ disk' = sw.db
             /\ req' = [NoReq EXCEPT !.type = "SWEEP"]
             /\ resp' = NoResp
             /\ obs' = [NoObs EXCEPT !.batches = sw.batches]
             /\ hist' = [k \in Keys |-> IF sw.db[k] # disk[k] THEN Other ELSE hist[k]]
    /\ UNCHANGED <<variant, upstreamURL, cacheTTL, janitorChunk, now, missed, process>>

\* time passes
Tick ==
    /\ req = NoReq
    /\ now < MaxTime
    /\ now' = now + 1
    /\ UNCHANGED <<variant, upstreamURL, cacheTTL, janitorChunk, disk, hist, req,
                   resp, obs, missed, process>>

\* the response has been written (writeFrame, main.go 411; the HTTP reply,
\* main.go 427-432) and the server waits for the next request
Reply ==
    /\ req # NoReq
    /\ req' = NoReq
    /\ resp' = NoResp
    /\ obs' = NoObs
    /\ UNCHANGED <<variant, upstreamURL, cacheTTL, janitorChunk, now, disk, hist,
                   missed, process>>

(***************************************************************************)
(* Actions of the modular server, cmd/kvstore/main.go                      *)
(***************************************************************************)
\* cmd/kvstore/main.go 22-41: ttl is fixed to a finite duration
InitModular ==
    /\ variant = "modular"
    /\ upstreamURL \in Upstreams
    /\ cacheTTL \in TTLs \ {0}
    /\ janitorChunk = DefaultChunk
    /\ InitCommon

\* serveFn (cmd/kvstore/main.go 44-51)
serveFn(rq, order, fl, up) ==
    /\ Respond(Handler_Serve(disk, rq, order, cacheTTL, upstreamURL, fl, up), rq, up)
    /\ UNCHANGED conns

ModGet ==
    /\ variant = "modular"
    /\ req = NoReq
    /\ \E keys \in GetKeySeqs, up \in UpFor(upstreamURL) :
          \E fl \in FaultChoices({"get", "put", "delete"}, Range(keys)) :
             /\ OneAnomaly(fl, up)
             /\ serveFn([type |-> "GET", keys |-> keys, items |-> <<>>], <<>>, fl, up)

ModList ==
    /\ variant = "modular"
    /\ req = NoReq
    /\ serveFn([type |-> "LIST", keys |-> <<>>, items |-> <<>>], <<>>, {}, "ok")

ModUpdate ==
    /\ variant = "modular"
    /\ req = NoReq
    /\ \E items \in ItemMaps :
          \E order \in Orders(DOMAIN items),
             fl \in FaultChoices({"put", "delete"}, DOMAIN items) :
             serveFn([type |-> "UPDATE", keys |-> <<>>, items |-> items], order, fl,
                     "ok")

ModUnknown ==
    /\ variant = "modular"
    /\ req = NoReq
    /\ \E t \in UnknownTypes :
          serveFn([type |-> t, keys |-> <<>>, items |-> <<>>], <<>>, {}, "ok")

\* one tick of cleaner.Start, started only when ttl > 0
\* (cmd/kvstore/main.go 99-101, part_002 15-18)
ModSweep ==
    /\ variant = "modular"
    /\ req = NoReq
    /\ cleaner = "running"
    /\ LET sw == runOnce(disk)
       IN /\ disk' = sw.db
          /\ req' = [NoReq EXCEPT !.type = "SWEEP"]
          /\ resp' = NoResp
          /\ obs' = [NoObs EXCEPT !.batches = sw.batches]
          /\ hist' = hist
    /\ UNCHANGED <<variant, upstreamURL, cacheTTL, janitorChunk, now, missed, process>>

NextModular ==
    ModGet \/ ModList \/ ModUpdate \/ ModUnknown \/ ModSweep \/ Tick \/ Reply

SpecModular == InitModular /\ [][NextModular]_vars

Next == Get \/ List \/ Update \/ Unknown \/ Sweep \/ Tick \/ Reply

Spec == Init /\ [][Next]_vars

\* the cleaner of the monolithic server over a store of wrapped entries (live,
\* expiring at 1 or at InitExpiry, never expiring), undecodable bytes and
\* legacy raw strings, with a chunk size of 1, 2 or the default
ChunkSizes == {1, 2, DefaultChunk}
JanitorEntries ==
    {NoEntry, Garbage, JStr("old")}
      \cup {JObj([expiry |-> e, value |-> JStr("old")]) : e \in {1, InitExpiry, MaxInt64}}

InitJanitor ==
    /\ variant = "mono"
    /\ upstreamURL \in Upstreams
    /\ cacheTTL \in TTLs \ {0}
    /\ janitorChunk \in ChunkSizes
    /\ disk \in [Keys -> JanitorEntries]
    /\ InitServing

NextJanitor == Sweep \/ Tick \/ Reply
SpecJanitor == InitJanitor /\ [][NextJanitor]_vars

\* the modular server while no key is read: UPDATE and LIST requests are
\* served, the ticker of cleaner.Start keeps firing whatever requests arrive
\* (part_002 13-18), every response is written and time passes
NextModularCleaner == ModSweep \/ ModUpdate \/ ModList \/ Tick \/ Reply
SpecModularCleaner ==
    /\ InitModular
    /\ [][NextModularCleaner]_vars
    /\ SF_vars(ModSweep)
    /\ WF_vars(Reply)
    /\ WF_vars(Tick)

\* the monolithic server under every CACHE_TTL time.ParseDuration accepts: a
\* negative duration, zero, a positive duration (main.go 323-332)
ConfigTTLs == TTLs \cup {-1}
InitConfig ==
    /\ variant = "mono"
    /\ upstreamURL \in Upstreams
    /\ cacheTTL \in ConfigTTLs
    /\ janitorChunk = DefaultChunk
    /\ InitCommon

SpecConfig == InitConfig /\ [][Next]_vars

\* the interrupt arrives: main closes the stop channel of the cleaner it
\* started (cmd/kvstore/main.go 104-112)
Shutdown ==
    /\ variant = "modular"
    /\ ~stop
    /\ cleanerStarted(cacheTTL)
    /\ stop' = TRUE
    /\ UNCHANGED <<variant, upstreamURL, cacheTTL, janitorChunk, now, disk, hist, req,
                   resp, obs, missed, cleaner, conns, tasks>>

\* a cleaner goroutine that returns without the stop channel being closed
CleanerStop_unsignalled ==
    /\ variant = "modular"
    /\ cleaner = "running"
    /\ req.type # "SWEEP"
    /\ cleaner' = "stopped"
    /\ UNCHANGED <<variant, upstreamURL, cacheTTL, janitorChunk, now, disk, hist, req,
                   resp, obs, missed, stop, conns, tasks>>

\* the select of cleaner.Start receives from the closed stop channel and the
\* goroutine returns (part_002 19-20); it is not in runOnce at that moment
CleanerStop ==
    /\ variant = "modular"
    /\ cleaner = "running"
    /\ stop
    /\ req.type # "SWEEP"
    /\ cleaner' = "stopped"
    /\ UNCHANGED <<variant, upstreamURL, cacheTTL, janitorChunk, now, disk, hist, req,
                   resp, obs, missed, stop, conns, tasks>>

\* the life of the modular server's cleaner: ticks of its ticker, the
\* interrupt, the return of the goroutine.  runOnce returns (Reply); a select
\* with the stop channel closed takes that case sooner or later, Go choosing
\* at random among the ready cases and the ticker being ready once an interval
NextLifecycle == ModSweep \/ ModUpdate \/ Shutdown \/ CleanerStop \/ Tick \/ Reply
SpecLifecycle ==
    /\ InitModular
    /\ [][NextLifecycle]_vars
    /\ WF_vars(Reply)
    /\ SF_vars(CleanerStop)

(***************************************************************************)
(* The socket transport of the monolithic server, main.go 387-415          *)
(***************************************************************************)
\* frames followed per connection
MaxFrames == 2

\* payloads of fully read frames that are no request envelope: bytes that are
\* not JSON, JSON of another shape than the Request struct (json.Unmarshal
\* fails on both), and JSON null (json.Unmarshal succeeds and leaves the
\* Request zero)
BadPayloads == {"notjson", "wrongshape", "null"}
\* request envelopes sent over the socket
SockRequests ==
    {[type |-> "GET", keys |-> <<"k1">>, items |-> <<>>],
     [type |-> "LIST", keys |-> <<>>, items |-> <<>>],
     [type |-> "UPDATE", keys |-> <<>>, items |-> ("k2" :> JStr(""))],
     [type |-> "PING", keys |-> <<>>, items |-> <<>>]}

\* json.Unmarshal(payload, &req) for the payloads of BadPayloads
UnmarshalRequest(payload) ==
    IF payload = "null" THEN [err |-> "", req |-> NoReq]
    ELSE [err |-> "json", req |-> NoReq]

\* l.Accept returns a connection and its goroutine starts (main.go 389-395)
Accept(c) ==
    /\ variant = "mono"
    /\ req = NoReq
    /\ conns[c].state = "none"
    /\ conns' = [conns EXCEPT ![c].state = "open"]
    /\ UNCHANGED <<variant, upstreamURL, cacheTTL, janitorChunk, now, disk, hist, req,
                   resp, obs, missed, cleaner, stop, tasks>>

\* io.ReadFull of the header or of the payload fails: the goroutine returns
\* and the deferred c.Close() runs (main.go 394, 398-404)
ReadFail(c) ==
    /\ variant = "mono"
    /\ req = NoReq
    /\ conns[c].state = "open"
    /\ conns' = [conns EXCEPT ![c].state = "closed", ![c].frame = "readfail"]
    /\ UNCHANGED <<variant, upstreamURL, cacheTTL, janitorChunk, now, disk, hist, req,
                   resp, obs, missed, cleaner, stop, tasks>>

\* a socket loop that gives up the connection on a payload it cannot decode
SockBadFrame_close(c) ==
    /\ variant = "mono"
    /\ req = NoReq
    /\ conns[c].state = "open"
    /\ conns[c].nread < MaxFrames
    /\ \E payload \in BadPayloads :
          conns' = [conns EXCEPT ![c].nread = @ + 1, ![c].frame = payload,
                                 ![c].state = "closed"]
    /\ UNCHANGED <<variant, upstreamURL, cacheTTL, janitorChunk, now, disk, hist, req,
                   resp, obs, missed, cleaner, stop, tasks>>

\* a fully read frame whose payload is no request envelope (main.go 405-411):
\* the ERR frame of the failed json.Unmarshal, or for a zero Request the
\* response of handleRequest, is written and the loop continues
SockBadFrame(c) ==
    /\ variant = "mono"
    /\ req = NoReq
    /\ conns[c].state = "open"
    /\ conns[c].nread < MaxFrames
    /\ \E payload \in BadPayloads :
          LET u == UnmarshalRequest(payload)
              st == handleRequest(disk, u.req, <<>>, cacheTTL, upstreamURL, {}, "ok")
              out == IF u.err # "" THEN [type |-> "ERR", error |-> u.err, data |-> <<>>]
                     ELSE ResponseOf(st)
          IN /\ conns' = [conns EXCEPT ![c].nread = @ + 1, ![c].nwritten = @ + 1,
                                        ![c].frame = payload, ![c].out = out.type]
             /\ disk' = IF u.err # "" THEN disk ELSE st.db
    /\ UNCHANGED <<variant, upstreamURL, cacheTTL, janitorChunk, now, hist, req,
                   resp, obs, missed, cleaner, stop, tasks>>

\* a fully read frame carrying a request envelope (main.go 405-411)
SockServe(c) ==
    /\ variant = "mono"
    /\ req = NoReq
    /\ conns[c].state = "open"
    /\ conns[c].nread < MaxFrames
    /\ \E rq \in SockRequests :
          LET st == handleRequest(disk, rq, <<"k2">>, cacheTTL, upstreamURL, {}, "ok")
          IN /\ Respond(st, rq, "ok")
             /\ conns' = [conns EXCEPT ![c].nread = @ + 1, ![c].nwritten = @ + 1,
                                        ![c].frame = "request",
                                        ![c].out = ResponseOf(st).type]

NextSocket ==
    \/ \E c \in Conns : Accept(c) \/ ReadFail(c) \/ SockBadFrame(c) \/ SockServe(c)
    \/ Tick
    \/ Reply
SpecSocket == Init /\ [][NextSocket]_vars

(***************************************************************************)
(* The socket transport of the modular server, cmd/kvstore/main.go 58-84   *)
(***************************************************************************)
\* l.Accept returns a connection and ServeUnix starts the handler goroutine
\* (socket.go 18-23)
ModAccept(c) ==
    /\ variant = "modular"
    /\ req = NoReq
    /\ conns[c].state = "none"
    /\ conns' = [conns EXCEPT ![c].state = "open"]
    /\ UNCHANGED <<variant, upstreamURL, cacheTTL, janitorChunk, now, disk, hist, req,
                   resp, obs, missed, cleaner, stop, tasks>>

\* transport.ReadMessage fails (socket.go 31-39): the handler returns and the
\* deferred conn.Close() runs (cmd/kvstore/main.go 61-68)
ModReadFail(c) ==
    /\ variant = "modular"
    /\ req = NoReq
    /\ conns[c].state = "open"
    /\ conns' = [conns EXCEPT ![c].state = "closed", ![c].frame = "readfail"]
    /\ UNCHANGED <<variant, upstreamURL, cacheTTL, janitorChunk, now, disk, hist, req,
                   resp, obs, missed, cleaner, stop, tasks>>

\* a fully read frame whose payload is no request envelope: serveFn returns
\* the error of json.Unmarshal and the handler returns without writing
\* (cmd/kvstore/main.go 46-48, 71-75); for a zero Request the response of
\* h.Serve is written (78); the deferred conn.Close() runs in both cases
ModSockBadFrame(c) ==
    /\ variant = "modular"
    /\ req = NoReq
    /\ conns[c].state = "open"
    /\ \E payload \in BadPayloads :
          LET u == UnmarshalRequest(payload)
              st == Handler_Serve(disk, u.req, <<>>, cacheTTL, upstreamURL, {}, "ok")
          IN /\ conns' = [conns EXCEPT
                    ![c].nread = @ + 1,
                    ![c].nwritten = IF u.err # "" THEN @ ELSE @ + 1,
                    ![c].frame = payload,
                    ![c].out = IF u.err # "" THEN @ ELSE ResponseOf(st).type,
                    ![c].state = "closed"]
             /\ disk' = IF u.err # "" THEN disk ELSE st.db
    /\ UNCHANGED <<variant, upstreamURL, cacheTTL, janitorChunk, now, hist, req,
                   resp, obs, missed, cleaner, stop, tasks>>

\* a fully read frame carrying a request envelope: the response of serveFn is
\* written and the handler returns, closing the connection
\* (cmd/kvstore/main.go 61-80)
ModSockServe(c) ==
    /\ variant = "modular"
    /\ req = NoReq
    /\ conns[c].state = "open"
    /\ \E rq \in SockRequests :
          LET st == Handler_Serve(disk, rq, <<"k2">>, cacheTTL, upstreamURL, {}, "ok")
          IN /\ Respond(st, rq, "ok")
             /\ conns' = [conns EXCEPT ![c].nread = @ + 1, ![c].nwritten = @ + 1,
                                        ![c].frame = "request",
                                        ![c].out = ResponseOf(st).type,
                                        ![c].state = "closed"]

NextModularSocket ==
    \/ \E c \in Conns :
          ModAccept(c) \/ ModReadFail(c) \/ ModSockBadFrame(c) \/ ModSockServe(c)
    \/ Tick
    \/ Reply
SpecModularSocket == InitModular /\ [][NextModularSocket]_vars

(***************************************************************************)
(* The Badger-backed server, src/unnamed/part_000.  An item of the store   *)
(* is the raw value and the time it expires at, 0 for an item without TTL. *)
(***************************************************************************)
BadgerItem(raw, expiresAt) == [t |-> "item", val |-> raw, expiresAt |-> expiresAt]

\* txn.Get does not find an item that has expired
BadgerLive(b) == b # NoEntry /\ (b.expiresAt = 0 \/ now < b.expiresAt)

\* readEntryTxn (part_000 45-58)
readEntryTxn(db, key, fl) ==
    IF <<"get", key>> \in fl THEN [raw |-> EmptyRaw, ok |-> FALSE, err |-> "io"]
    ELSE IF ~BadgerLive(db[key]) THEN [raw |-> EmptyRaw, ok |-> FALSE, err |-> ""]
    ELSE [raw |-> db[key].val, ok |-> TRUE, err |-> ""]

\* writeEntryTxn (part_000 60-66)
writeEntryTxn(db, key, raw, ttl, fl) ==
    LET e == BadgerItem(raw, IF ttl > 0 THEN now + ttl ELSE 0)
    IN IF <<"put", key>> \in fl THEN [err |-> "io", db |-> db]
       ELSE [err |-> "", db |-> [db EXCEPT ![key] = e]]

\* deleteEntryTxn (part_000 68-70)
deleteEntryTxn(db, key, fl) ==
    IF <<"delete", key>> \in fl THEN [err |-> "io", db |-> db]
    ELSE [err |-> "", db |-> [db EXCEPT ![key] = NoEntry]]

\* listAllEntries (part_000 104-124): the iterator skips expired items, the
\* loop skips values that are not JSON
BadgerListAll(db) ==
    LET ks == {k \in Keys : BadgerLive(db[k]) /\ ValidJSON(db[k].val)}
    IN [k \in ks |-> UnmarshalIface(db[k].val)]

\* the body of the GET loop (part_000 190-202): a key that is not found gets
\* nil in the results; fetchFromUpstream (part_000 143-183) has no caller
BadgerGetKey(st, key, fl) ==
    LET r == readEntryTxn(st.db, key, fl)
    IN IF r.err # "" THEN [st EXCEPT !.err = r.err, !.failed = @ \cup {<<"get", key>>}]
       ELSE IF r.ok THEN [st EXCEPT !.data = (key :> UnmarshalIface(r.raw)) @@ @]
       ELSE [st EXCEPT !.data = (key :> JNull) @@ @]

RECURSIVE BadgerGetLoop(_, _, _, _)
BadgerGetLoop(st, keys, i, fl) ==
    IF i > Len(keys) \/ st.err # "" THEN st
    ELSE BadgerGetLoop(BadgerGetKey(st, keys[i], fl), keys, i + 1, fl)

\* the body of the UPDATE loop (part_000 219-229)
BadgerUpdateItem(st, key, raw, ttl, fl) ==
    LET s1 == [st EXCEPT !.done = Append(@, key)]
        d == deleteEntryTxn(st.db, key, fl)
        w == writeEntryTxn(st.db, key, raw, ttl, fl)
    IN IF RawLen(raw) = 0 THEN
           IF d.err # "" THEN [s1 EXCEPT !.err = d.err,
                                         !.failed = @ \cup {<<"delete", key>>}]
           ELSE [s1 EXCEPT !.db = d.db]
       ELSE IF w.err # "" THEN [s1 EXCEPT !.err = w.err,
                                          !.failed = @ \cup {<<"put", key>>}]
       ELSE [s1 EXCEPT !.db = w.db]

RECURSIVE BadgerUpdateLoop(_, _, _, _, _, _)
BadgerUpdateLoop(st, items, order, i, ttl, fl) ==
    IF i > Len(order) \/ st.err # "" THEN st
    ELSE BadgerUpdateLoop(BadgerUpdateItem(st, order[i], items[order[i]], ttl, fl),
                          items, order, i + 1, ttl, fl)

\* handleRequest (part_000 185-240); the UPDATE runs in one db.Update
\* transaction, which is discarded when the function returns an error
BadgerHandleRequest(db, rq, order, ttl, upstream, fl) ==
    CASE rq.type = "GET" -> BadgerGetLoop(StartOf(db), rq.keys, 1, fl)
      [] rq.type = "LIST" -> [StartOf(db) EXCEPT !.data = BadgerListAll(db)]
      [] rq.type = "UPDATE" ->
            LET st == BadgerUpdateLoop(StartOf(db), rq.items, order, 1, ttl, fl)
            IN IF st.err # "" THEN [st EXCEPT !.db = db] ELSE st
      [] OTHER -> [StartOf(db) EXCEPT !.err = "unknown type"]

\* store contents found at start-up: nothing, or one item without TTL
BadgerDisks ==
    {d \in [Keys -> {NoEntry, BadgerItem(JStr("old"), 0)}] :
        \E k \in Keys : \A j \in Keys \ {k} : d[j] = NoEntry}

\* part_000 246-296: configuration from the environment; no janitor exists,
\* startBadgerGC only reclaims value-log space
InitBadger ==
    /\ variant = "badger"
    /\ upstreamURL \in Upstreams
    /\ cacheTTL \in TTLs
    /\ janitorChunk = DefaultChunk
    /\ disk \in BadgerDisks
    /\ now = 1
    /\ hist = [k \in Keys |-> IF disk[k] = NoEntry THEN Never ELSE AtInit]
    /\ req = NoReq
    /\ resp = NoResp
    /\ obs = NoObs
    /\ missed = {}
    /\ cleaner = "off"
    /\ stop = FALSE
    /\ conns = NoConns
    /\ tasks = NoTasks

\* one request served by handleRequest (part_000 322, 338); up is how the
\* upstream would answer
BadgerServe(rq, order, fl, up) ==
    /\ Respond(BadgerHandleRequest(disk, rq, order, cacheTTL, upstreamURL, fl), rq, up)
    /\ UNCHANGED conns

BadgerGet ==
    /\ variant = "badger"
    /\ req = NoReq
    /\ \E keys \in GetKeySeqs, up \in UpFor(upstreamURL) :
          \E fl \in FaultChoices({"get"}, Range(keys)) :
             /\ OneAnomaly(fl, up)
             /\ BadgerServe([type |-> "GET", keys |-> keys, items |-> <<>>], <<>>, fl,
                            up)

BadgerList ==
    /\ variant = "badger"
    /\ req = NoReq
    /\ BadgerServe([type |-> "LIST", keys |-> <<>>, items |-> <<>>], <<>>, {}, "ok")

BadgerUpdate ==
    /\ variant = "badger"
    /\ req = NoReq
    /\ \E items \in ItemMaps :
          \E order \in Orders(DOMAIN items),
             fl \in FaultChoices({"put", "delete"}, DOMAIN items) :
             BadgerServe([type |-> "UPDATE", keys |-> <<>>, items |-> items], order,
                         fl, "ok")

BadgerUnknown ==
    /\ variant = "badger"
    /\ req = NoReq
    /\ \E t \in UnknownTypes :
          BadgerServe([type |-> t, keys |-> <<>>, items |-> <<>>], <<>>, {}, "ok")

NextBadger ==
    BadgerGet \/ BadgerList \/ BadgerUpdate \/ BadgerUnknown \/ Tick \/ Reply
SpecBadger == InitBadger /\ [][NextBadger]_vars

(***************************************************************************)
(* The goroutines of the monolithic server interleaved at the grain of     *)
(* their storage operations: one handler per connection (main.go 395-413)  *)
(* and the cleaner (main.go 163-192).  db.Get, db.Put, db.Delete, db.Write *)
(* and the iterator's snapshot are atomic in RocksDB; nothing in main.go   *)
(* orders the operations of one goroutine with those of another.           *)
(***************************************************************************)
\* the value the client of a connection writes with its UPDATEs
ConcValue(c) == IF c = "c1" THEN JStr("") ELSE JStr("b")

Free(c) == tasks.run[c].pc \in {"idle", "returned"}
Changed(op, who) == [op |-> op, who |-> who, acked |-> FALSE]

\* UPDATE {k: v} arrives on connection c and writeEntry's db.Put is applied
\* (main.go 295-299, 104-118)
ConcUpdatePut(c) ==
    /\ variant = "mono"
    /\ req = NoReq
    /\ Free(c)
    /\ \E k \in Keys :
          LET v == ConcValue(c)
              w == writeEntry(disk, k, v, cacheTTL, upstreamURL = "", {})
          IN /\ disk' = w.db
             /\ hist' = [hist EXCEPT ![k] = [by |-> "update", at |-> now, val |-> v]]
             /\ tasks' = [tasks EXCEPT
                    !.run[c] = [NoTask EXCEPT !.op = "UPDATE", !.pc = "reply",
                                              !.key = k, !.val = v],
                    !.last[k] = Changed("UPDATE", c)]
    /\ UNCHANGED <<variant, upstreamURL, cacheTTL, janitorChunk, now, req, resp, obs,
                   missed, cleaner, stop, conns>>

\* GET [k] arrives on connection c and readEntry's db.Get is applied; what the
\* handler does next follows from the bytes it has seen (main.go 60-99,
\* 247-258)
ConcGetRead(c) ==
    /\ variant = "mono"
    /\ req = NoReq
    /\ Free(c)
    /\ \E k \in Keys :
          LET seen == disk[k]
              w == UnmarshalEntry(seen)
              replicaMode == upstreamURL = ""
              t == [NoTask EXCEPT !.op = "GET", !.key = k, !.seen = seen]
              miss == IF replicaMode THEN [t EXCEPT !.pc = "reply", !.out = JNull]
                      ELSE [t EXCEPT !.pc = "fill"]
          IN tasks' = [tasks EXCEPT !.run[c] =
                 IF seen = NoEntry THEN miss
                 ELSE IF ~w.err THEN
                     IF w.Expiry # MaxInt64 /\ now > w.Expiry
                     THEN [t EXCEPT !.pc = "lazydelete"]
                     ELSE [t EXCEPT !.pc = "reply", !.out = UnmarshalIface(w.Value)]
                 ELSE IF replicaMode
                 THEN [t EXCEPT !.pc = "reply", !.out = UnmarshalIface(seen)]
                 ELSE [t EXCEPT !.pc = "rewrite"]]
    /\ UNCHANGED <<variant, upstreamURL, cacheTTL, janitorChunk, now, disk, hist, req,
                   resp, obs, missed, cleaner, stop, conns>>

\* the db.Delete of a read that saw an expired entry (main.go 75-78); it
\* names the key only
ConcLazyDelete(c) ==
    /\ variant = "mono"
    /\ req = NoReq
    /\ tasks.run[c].pc = "lazydelete"
    /\ LET k == tasks.run[c].key
           d == deleteEntry(disk, k, {})
       IN /\ disk' = d.db
          /\ hist' = [hist EXCEPT ![k] = Other]
          /\ tasks' = [tasks EXCEPT
                 !.run[c] = IF upstreamURL = ""
                            THEN [@ EXCEPT !.pc = "reply", !.out = JNull]
                            ELSE [@ EXCEPT !.pc = "fill"],
                 !.last[k] = Changed("lazydelete", c)]
    /\ UNCHANGED <<variant, upstreamURL, cacheTTL, janitorChunk, now, req, resp, obs,
                   missed, cleaner, stop, conns>>

\* the write-back of a read that saw legacy bytes (main.go 94-99)
ConcRewrite(c) ==
    /\ variant = "mono"
    /\ req = NoReq
    /\ tasks.run[c].pc = "rewrite"
    /\ LET k == tasks.run[c].key
           raw == tasks.run[c].seen
           w == writeEntry(disk, k, raw, cacheTTL, FALSE, {})
       IN /\ disk' = w.db
          /\ hist' = [hist EXCEPT ![k] = IF w.err = "" THEN Other ELSE @]
          /\ tasks' = [tasks EXCEPT
                 !.run[c] = [@ EXCEPT !.pc = "reply", !.out = UnmarshalIface(raw)],
                 !.last[k] = IF w.err = "" THEN Changed("rewrite", c) ELSE @]
    /\ UNCHANGED <<variant, upstreamURL, cacheTTL, janitorChunk, now, req, resp, obs,
                   missed, cleaner, stop, conns>>

\* after a miss with an upstream configured: fetchFromUpstream and, when the
\* upstream has the key, writeEntry (main.go 259-271)
ConcFill(c) ==
    /\ variant = "mono"
    /\ req = NoReq
    /\ tasks.run[c].pc = "fill"
    /\ LET k == tasks.run[c].key
           f == fetchFromUpstream(upstreamURL, k, "ok")
           w == writeEntry(disk, k, f.raw, cacheTTL, FALSE, {})
       IN /\ disk' = IF f.found THEN w.db ELSE disk
          /\ hist' = [hist EXCEPT ![k] =
                         IF f.found THEN [by |-> "upstream", at |-> now, val |-> f.raw]
                         ELSE @]
          /\ tasks' = [tasks EXCEPT
                 !.run[c] = [@ EXCEPT !.pc = "reply",
                                      !.out = IF f.found THEN UnmarshalIface(f.raw)
                                              ELSE JNull],
                 !.last[k] = IF f.found THEN Changed("fill", c) ELSE @]
    /\ UNCHANGED <<variant, upstreamURL, cacheTTL, janitorChunk, now, req, resp, obs,
                   missed, cleaner, stop, conns>>

\* the OK response is written to the connection (main.go 411)
ConcReply(c) ==
    /\ variant = "mono"
    /\ req = NoReq
    /\ tasks.run[c].pc = "reply"
    /\ tasks' = [tasks EXCEPT
           !.run[c].pc = "returned",
           !.last = [k \in Keys |->
                        IF @[k].who = c /\ @[k].op = tasks.run[c].op
                             /\ k = tasks.run[c].key
                        THEN [@[k] EXCEPT !.acked = TRUE] ELSE @[k]]]
    /\ UNCHANGED <<variant, upstreamURL, cacheTTL, janitorChunk, now, disk, hist, req,
                   resp, obs, missed, cleaner, stop, conns>>

\* a tick of the cleaner: the iterator's snapshot is scanned and the keys
\* whose entries have expired are put in the batch (main.go 165-176); the
\* batch names keys only
ConcScan ==
    /\ variant = "mono"
    /\ req = NoReq
    /\ cleaner = "running"
    /\ tasks.janitor.pc = "idle"
    /\ LET batch == {k \in Keys :
                        LET w == UnmarshalEntry(disk[k])
                        IN disk[k] # NoEntry /\ ~w.err
                             /\ w.Expiry # MaxInt64 /\ w.Expiry <= now}
       IN /\ batch # {}
          /\ tasks' = [tasks EXCEPT !.janitor = [pc |-> "flush", batch |-> batch]]
    /\ UNCHANGED <<variant, upstreamURL, cacheTTL, janitorChunk, now, disk, hist, req,
                   resp, obs, missed, cleaner, stop, conns>>

\* db.Write of the batch (main.go 186-188)
ConcFlush ==
    /\ variant = "mono"
    /\ req = NoReq
    /\ tasks.janitor.pc = "flush"
    /\ LET batch == tasks.janitor.batch
       IN /\ disk' = [k \in Keys |-> IF k \in batch THEN NoEntry ELSE disk[k]]
          /\ hist' = [k \in Keys |-> IF k \in batch THEN Other ELSE hist[k]]
          /\ tasks' = [tasks EXCEPT
                 !.janitor = [pc |-> "idle", batch |-> {}],
                 !.last = [k \in Keys |-> IF k \in batch
                                          THEN Changed("flush", "janitor") ELSE @[k]]]
    /\ UNCHANGED <<variant, upstreamURL, cacheTTL, janitorChunk, now, req, resp, obs,
                   missed, cleaner, stop, conns>>

NextConcurrent ==
    \/ \E c \in Conns :
          \/ ConcUpdatePut(c)
          \/ ConcGetRead(c)
          \/ ConcLazyDelete(c)
          \/ ConcRewrite(c)
          \/ ConcFill(c)
          \/ ConcReply(c)
    \/ ConcScan
    \/ ConcFlush
    \/ Tick
\* store contents found at start-up: nothing, or under one key a legacy raw
\* string or a wrapped entry that expires at InitExpiry
ConcDisks ==
    {d \in [Keys -> {NoEntry, JStr("old"),
                     JObj([expiry |-> InitExpiry, value |-> JStr("old")])}] :
        \E k \in Keys : \A j \in Keys \ {k} : d[j] = NoEntry}

InitConcurrent ==
    /\ variant = "mono"
    /\ upstreamURL \in Upstreams
    /\ cacheTTL \in TTLs
    /\ janitorChunk = DefaultChunk
    /\ disk \in ConcDisks
    /\ InitServing

SpecConcurrent == InitConcurrent /\ [][NextConcurrent]_vars

\* handleRequest called with UPDATE requests whose items may hold the empty
\* marker, a zero-length raw value (main.go 291)
MarkerItemMaps == UNION {[S -> UpdateValues \cup {EmptyRaw}] : S \in SUBSET Keys}

UpdateCall ==
    /\ variant = "mono"
    /\ req = NoReq
    /\ \E items \in MarkerItemMaps :
          \E order \in Orders(DOMAIN items),
             fl \in FaultChoices({"put", "delete"}, DOMAIN items) :
             Serve([type |-> "UPDATE", keys |-> <<>>, items |-> items], order, fl,
                   "ok")

NextDispatch == UpdateCall \/ List \/ Tick \/ Reply
SpecDispatch == Init /\ [][NextDispatch]_vars

\* either server, for the properties both handlers share
InitServers == Init \/ InitModular
NextServers == Next \/ NextModular
SpecServers == InitServers /\ [][NextServers]_vars

(***************************************************************************)
(* Properties                                                              *)
(***************************************************************************)
\* this step serves a request of type t
Serving(t) == req = NoReq /\ req'.type = t
\* the entry hist h describes has not outlived its TTL
WithinTTL(h) == cacheTTL = 0 \/ now <= h.at + cacheTTL

\* C1: in the monolithic server a single-key GET([k]) of a key k that was
\* never written to local storage, whose storage read succeeds, returns OK
\* with null for k and calls no upstream when none is configured, and makes
\* exactly one upstream fetch for k when one is configured.
C1_NeverWrittenGet ==
    [][(/\ variant = "mono"
        /\ Serving("GET")
        /\ Len(req'.keys) = 1
        /\ hist[req'.keys[1]] = Never
        /\ <<"get", req'.keys[1]>> \notin obs'.failed)
       => LET k == req'.keys[1]
          IN IF upstreamURL = ""
             THEN /\ resp'.type = "OK"
                  /\ resp'.data = (k :> JNull)
                  /\ \A j \in Keys : obs'.calls[j] = 0
             ELSE /\ obs'.calls[k] = 1
                  /\ \A j \in Keys \ {k} : obs'.calls[j] = 0]_vars

\* a single-key GET of a never-written key has made its one upstream call
\* and returned null
C1_Witness ==
    /\ variant = "mono"
    /\ upstreamURL # ""
    /\ req.type = "GET"
    /\ Len(req.keys) = 1
    /\ hist[req.keys[1]] = Never
    /\ obs.calls[req.keys[1]] = 1
    /\ resp.type = "OK"
    /\ resp.data[req.keys[1]] = JNull

\* C2 (as claimed): a GET that follows an UPDATE which returned OK returns,
\* for every key the UPDATE wrote with a non-empty value, exactly the value
\* written, while the TTL has not elapsed and nothing else wrote the key.
C2_RoundTrip ==
    [][(/\ variant = "mono"
        /\ Serving("GET")
        /\ resp'.type = "OK")
       => \A k \in Range(req'.keys) :
             (hist[k].by = "update" /\ WithinTTL(hist[k]))
                => resp'.data[k] = hist[k].val]_vars

C4_EmptyStringDeletes ==
    (variant = "mono" /\ req.type = "UPDATE" /\ resp.type = "OK")
       => \A k \in DOMAIN req.items :
             req.items[k] = JStr("") =>
                /\ ResponseOf(handleRequest(disk,
                       [type |-> "GET", keys |-> <<k>>, items |-> <<>>], <<>>,
                       cacheTTL, upstreamURL, {}, "status404")).data[k] = JNull
                /\ k \notin DOMAIN listAllEntries(disk, upstreamURL = "")

\* a stored wrapper whose expiry is finite and earlier than the current time
ExpiredWrapper(b) ==
    /\ b.t = "obj"
    /\ "expiry" \in DOMAIN b.f
    /\ b.f.expiry # MaxInt64
    /\ b.f.expiry < now

C6_PopulateDurable ==
    [][(/\ Serving("GET")
        /\ Len(req'.keys) = 1
        /\ obs'.up = "neterr"
        /\ obs'.failed = {})
       => \A k \in Range(req'.keys) :
             (hist[k].by = "upstream" /\ WithinTTL(hist[k]))
                => (resp'.type = "OK" /\ resp'.data[k] = hist[k].val)]_vars

\* C7 (as claimed): a GET during which an upstream fetch failed (network
\* failure, status 500, ERR envelope, malformed body) returns ERR with no
\* per-key data.
C7_UpstreamFailureIsErr ==
    (/\ req.type = "GET"
     /\ obs.up \in UpFailModes
     /\ \E k \in Keys : obs.calls[k] > 0)
       => (resp.type = "ERR" /\ resp.data = <<>>)

\* stored bytes that do not decode as an entry
Undecodable(b) == b # NoEntry /\ UnmarshalEntry(b).err

\* C8 (as claimed): in the modular server a GET of a key whose stored bytes
\* fail to decode, served without storage fault and with the upstream
\* answering, never returns ERR, and LIST skips the key.
C8_DecodeErrorIsAbsent ==
    [][(/\ variant = "modular"
        /\ (Serving("GET") \/ Serving("LIST"))
        /\ obs'.failed = {}
        /\ obs'.up \in {"ok", "none"})
       => \A k \in Keys :
             Undecodable(disk[k]) =>
                IF req'.type = "GET"
                THEN k \in Range(req'.keys) =>
                        /\ resp'.type = "OK"
                        /\ (resp'.data[k] = JNull \/ k \in obs'.served)
                ELSE k \notin DOMAIN resp'.data]_vars

\* C9 (as claimed): without an upstream, a legacy raw entry of any JSON shape
\* is returned as-is by GET, is included in LIST, and is not deleted by a
\* read or by a sweep.
C9_LegacyAuthoritative ==
    [][(/\ variant = "mono"
        /\ upstreamURL = ""
        /\ (Serving("GET") \/ Serving("LIST") \/ Serving("SWEEP")))
       => \A k \in Keys :
             disk[k] \in LegacyRaws =>
                /\ disk'[k] = disk[k]
                /\ (req'.type = "GET" /\ k \in Range(req'.keys) /\ resp'.type = "OK")
                      => resp'.data[k] = UnmarshalIface(disk[k])
                /\ req'.type = "LIST"
                      => (k \in DOMAIN resp'.data
                            /\ resp'.data[k] = UnmarshalIface(disk[k]))]_vars

\* C10 (as claimed): within one GET invocation at most one upstream fetch is
\* made for each distinct requested key, also when the key occurs more than
\* once in keys.
C10_OneFetchPerKey ==
    req.type = "GET" => \A k \in Keys : obs.calls[k] <= 1

\* a stored entry that a read treats as a local miss: no entry, or a wrapper
\* whose finite expiry has passed
LocalMiss(b) ==
    \/ b = NoEntry
    \/ /\ ~UnmarshalEntry(b).err
       /\ UnmarshalEntry(b).Expiry # MaxInt64
       /\ now > UnmarshalEntry(b).Expiry

\* C11: in the monolithic server with an upstream configured, a GET that
\* returns OK gives null for every key the upstream answered not-found for and
\* stores no entry under it (the key's entry is left as it was or is the lazy
\* delete of an expired one), and every key of the GET that misses locally is
\* fetched from upstream, also when an earlier GET already got not-found for it.
C11_MissNotCached ==
    [][(/\ variant = "mono"
        /\ upstreamURL # ""
        /\ Serving("GET")
        /\ resp'.type = "OK")
       => \A k \in Range(req'.keys) :
             /\ k \in obs'.notfound =>
                   /\ resp'.data[k] = JNull
                   /\ disk'[k] \in {disk[k], NoEntry}
                   /\ <<"put", k>> \notin obs'.failed
             /\ (LocalMiss(disk[k]) /\ <<"get", k>> \notin obs'.failed)
                   => obs'.calls[k] >= 1]_vars

\* a GET has asked the upstream again for a key that an earlier GET already
\* got not-found for, got not-found again and left the key without an entry
C11_Witness ==
    /\ variant = "mono"
    /\ req.type = "GET"
    /\ resp.type = "OK"
    /\ \E k \in obs.retried :
          /\ obs.calls[k] >= 1
          /\ resp.data[k] = JNull
          /\ disk[k] = NoEntry

\* C12: in both servers a request whose type is not GET, LIST or UPDATE gets
\* an ERR response with error "unknown type", leaves every stored entry as it
\* was and makes no upstream call.
C12_UnknownType ==
    [][(/\ req = NoReq
        /\ req'.type \notin {"", "GET", "LIST", "UPDATE", "SWEEP"})
       => /\ resp' = [type |-> "ERR", error |-> "unknown type", data |-> <<>>]
          /\ disk' = disk
          /\ \A k \in Keys : obs'.calls[k] = 0
          /\ obs'.failed = {}]_vars

\* a request of unknown type has been answered while the store holds an entry
C12_Witness ==
    /\ req.type \in UnknownTypes
    /\ resp.type = "ERR"
    /\ resp.error = "unknown type"
    /\ \E k \in Keys : disk[k] # NoEntry

\* C13: in both servers, when the storage write or delete of one item fails
\* during an UPDATE, the response is ERR carrying that error, the failed item
\* is the last one attempted, the items attempted before it are stored with
\* their new values, and every other key (the items not yet attempted and the
\* keys not named in items) keeps its entry.
C13_UpdateAbortsOnFailure ==
    [][(Serving("UPDATE") /\ obs'.failed # {})
       => LET done == obs'.done
              n == Len(done)
          IN /\ resp' = [type |-> "ERR", error |-> "io", data |-> <<>>]
             /\ n >= 1
             /\ obs'.failed \subseteq {<<"put", done[n]>>, <<"delete", done[n]>>}
             /\ disk'[done[n]] = disk[done[n]]
             /\ \A i \in 1..(n - 1) :
                   /\ done[i] \in DOMAIN req'.items
                   /\ ~UnmarshalEntry(disk'[done[i]]).err
                   /\ UnmarshalEntry(disk'[done[i]]).Value = req'.items[done[i]]
             /\ \A k \in Keys \ Range(done) : disk'[k] = disk[k]]_vars

\* an UPDATE of two items has failed on the first item it attempted: the
\* other item was not attempted and the response is ERR
C13_Witness ==
    /\ req.type = "UPDATE"
    /\ Cardinality(DOMAIN req.items) = 2
    /\ resp.type = "ERR"
    /\ obs.failed # {}
    /\ Len(obs.done) = 1

\* C14 (as claimed): a GET or UPDATE during which one of its own storage
\* operations failed (a read, a write, a delete; the populate write, the lazy
\* delete of an expired entry and the rewrite of a legacy entry included)
\* returns ERR.
C14_StorageFailureIsErr ==
    (req.type \in {"GET", "UPDATE"} /\ obs.failed # {}) => resp.type = "ERR"

\* a stored wrapper the sweep counts as expired: its expiry is finite and not
\* later than the current time
SweepExpired(b) ==
    /\ b.t = "obj"
    /\ "expiry" \in DOMAIN b.f
    /\ b.f.expiry # MaxInt64
    /\ b.f.expiry <= now

\* the keys of all the delete batches of a sweep
BatchKeys(B) == UNION {B[i].keys : i \in 1..Len(B)}

\* C15: one sweep of the monolithic server's cleaner over a store holding N
\* expired wrapped entries (among live, never-expiring and undecodable ones)
\* with chunk size C issues exactly ceil(N/C) delete batches, each of 1..C
\* keys, pairwise disjoint, that together name exactly the N expired keys; when
\* every batch write succeeds exactly those keys are deleted.
C15_ChunkedBatches ==
    [][Serving("SWEEP")
       => LET E == {k \in Keys : SweepExpired(disk[k])}
              N == Cardinality(E)
              C == janitorChunk
              B == obs'.batches
          IN /\ Len(B) = (N + C - 1) \div C
             /\ \A i \in 1..Len(B) :
                   Cardinality(B[i].keys) >= 1 /\ Cardinality(B[i].keys) <= C
             /\ \A i, j \in 1..Len(B) : i # j => B[i].keys \cap B[j].keys = {}
             /\ BatchKeys(B) = E
             /\ (\A i \in 1..Len(B) : B[i].ok)
                   => \A k \in Keys :
                         disk'[k] = IF k \in E THEN NoEntry ELSE disk[k]]_vars

\* a sweep with chunk size 1 has deleted two expired entries in two batches
C15_Witness ==
    /\ req.type = "SWEEP"
    /\ janitorChunk = 1
    /\ Len(obs.batches) = 2
    /\ \A i \in 1..2 : obs.batches[i].ok /\ Cardinality(obs.batches[i].keys) = 1
    /\ \A k \in Keys : disk[k] = NoEntry

\* C18: in a sweep of the monolithic server's cleaner every expired key is
\* submitted in some delete batch whether or not earlier batch writes failed:
\* the keys of a batch whose write succeeded are deleted, those of a batch
\* whose write failed stay stored; and the cleaner keeps running, a new sweep
\* being possible whenever the previous one has ended.
C18_FlushFailureContinues ==
    /\ [][Serving("SWEEP")
          => LET E == {k \in Keys : SweepExpired(disk[k])}
                 B == obs'.batches
             IN /\ BatchKeys(B) = E
                /\ \A i \in 1..Len(B) : \A k \in B[i].keys :
                      disk'[k] = IF B[i].ok THEN NoEntry ELSE disk[k]]_vars
    /\ [](cleaner = "running" /\ (req = NoReq => ENABLED Sweep))

\* a sweep whose first batch write failed has gone on to delete the expired
\* key found later in the scan
C18_Witness ==
    /\ req.type = "SWEEP"
    /\ Len(obs.batches) = 2
    /\ ~obs.batches[1].ok
    /\ obs.batches[2].ok
    /\ \A k \in obs.batches[1].keys : disk[k] # NoEntry
    /\ \A k \in obs.batches[2].keys : disk[k] = NoEntry

\* C16 (as claimed): in the modular server every stored entry whose expiry
\* has passed is eventually removed from storage, also when no GET reads it.
C16_ExpiredEventuallyDeleted ==
    \A k \in Keys : ExpiredWrapper(disk[k]) ~> ~ExpiredWrapper(disk[k])

C19_StopsOnShutdownOnly ==
    /\ [](cleaner = "stopped" => stop)
    /\ (stop ~> cleaner = "stopped")
    /\ [][cleaner = "stopped" => (cleaner' = "stopped" /\ ~Serving("SWEEP"))]_vars

\* the stop channel has been closed and the cleaner has returned
C19_Witness ==
    /\ variant = "modular"
    /\ stop
    /\ cleaner = "stopped"

\* C20: on the socket transport of the monolithic server a fully read frame
\* whose payload is no valid request envelope has exactly one ERR response
\* frame written to its connection, which stays open and can serve the next
\* frame; a connection is closed only by a failed read; and neither event
\* changes any other connection or the store.
C20_BadFrameKeepsConnection ==
    /\ [][\A c \in Conns :
            /\ (conns'[c].nread = conns[c].nread + 1 /\ conns'[c].frame \in BadPayloads)
                  => /\ conns'[c].state = "open"
                     /\ conns'[c].nwritten = conns[c].nwritten + 1
                     /\ conns'[c].out = "ERR"
                     /\ \A d \in Conns \ {c} : conns'[d] = conns[d]
                     /\ disk' = disk
            /\ (conns[c].state = "open" /\ conns'[c].state # "open")
                  => /\ conns'[c].frame = "readfail"
                     /\ conns'[c].nread = conns[c].nread
                     /\ \A d \in Conns \ {c} : conns'[d] = conns[d]]_vars
    /\ [](\A c \in Conns :
             (conns[c].state = "open" /\ conns[c].nread < MaxFrames /\ req = NoReq)
                => ENABLED SockServe(c))

\* a connection has got the ERR frame for an undecodable payload, as its
\* second frame, and is still open, while the other connection has been
\* closed by a failed read
C20_Witness ==
    /\ conns["c1"].state = "open"
    /\ conns["c1"].frame = "notjson"
    /\ conns["c1"].out = "ERR"
    /\ conns["c1"].nread = 2
    /\ conns["c1"].nwritten = 2
    /\ conns["c2"].state = "closed"

\* C22 (as claimed): in both servers a request for which the dispatcher
\* produced an ERR response is answered over HTTP with a 4xx status and the
\* error message as plain text.
C22_HttpErrIsClientError ==
    resp.type = "ERR"
       => /\ obs.http.status >= 400
          /\ obs.http.status <= 499
          /\ obs.http.body = "text"
          /\ obs.http.text = resp.error

\* the value a GET gives for stored bytes b: null when there is no entry or
\* the entry is a wrapper whose finite expiry has passed, the JSON value of a
\* live wrapper, the JSON value of the bytes themselves for a legacy raw entry
ValueOf(b) ==
    IF b = NoEntry THEN JNull
    ELSE IF UnmarshalEntry(b).err THEN UnmarshalIface(b)
    ELSE IF LocalMiss(b) THEN JNull
    ELSE UnmarshalIface(UnmarshalEntry(b).Value)

C27_LegacyRewritten ==
    [][(/\ variant = "mono"
        /\ upstreamURL # ""
        /\ Serving("GET")
        /\ Len(req'.keys) = 1
        /\ disk[req'.keys[1]] \in LegacyRaws
        /\ <<"get", req'.keys[1]>> \notin obs'.failed)
       => LET k == req'.keys[1]
          IN /\ resp'.type = "OK"
             /\ resp'.data[k] = UnmarshalIface(disk[k])
             /\ obs'.calls[k] = 0
             /\ obs'.failed = {}
                   => disk'[k] = JObj([expiry |-> IF cacheTTL = 0 THEN MaxInt64
                                                  ELSE now + cacheTTL,
                                       value |-> disk[k]])]_vars

\* C28: writeEntry stores the never-expire expiry exactly when there is no
\* upstream or the TTL is 0 and now+ttl otherwise: every key an UPDATE that
\* returned OK wrote holds a wrapper with that expiry; and without an upstream,
\* whatever the TTL, a key written by UPDATE keeps its entry through every
\* GET, LIST and sweep, GET returns its value and LIST includes it.
C28_ReplicaNeverExpires ==
    [][variant = "mono"
       => /\ (Serving("UPDATE") /\ resp'.type = "OK")
                => \A k \in DOMAIN req'.items :
                      /\ disk'[k].t = "obj"
                      /\ disk'[k].f.value = req'.items[k]
                      /\ disk'[k].f.expiry =
                            IF upstreamURL = "" \/ cacheTTL = 0 THEN MaxInt64
                            ELSE now + cacheTTL
          /\ (upstreamURL = "" /\ (Serving("GET") \/ Serving("LIST") \/ Serving("SWEEP")))
                => \A k \in Keys :
                      hist[k].by = "update" =>
                         /\ disk'[k] = disk[k]
                         /\ (req'.type = "GET" /\ resp'.type = "OK"
                                /\ k \in Range(req'.keys))
                               => resp'.data[k] = UnmarshalIface(hist[k].val)
                         /\ req'.type = "LIST"
                               => (k \in DOMAIN resp'.data
                                     /\ resp'.data[k] = UnmarshalIface(hist[k].val))]_vars

\* without an upstream and with a finite TTL, a sweep later than the TTL after
\* the UPDATE has left the key the UPDATE wrote in the store
C28_Witness ==
    /\ variant = "mono"
    /\ upstreamURL = ""
    /\ cacheTTL > 0
    /\ req.type = "SWEEP"
    /\ \E k \in Keys :
          /\ hist[k].by = "update"
          /\ now > hist[k].at + cacheTTL
          /\ disk[k] # NoEntry

\* C29 (as claimed): in the monolithic server without an upstream (replica
\* mode) no sweep of the cleaner is ever started.
C29_NoCleanerInReplicaMode ==
    (variant = "mono" /\ upstreamURL = "") => req.type # "SWEEP"

C21_ConnectionServesSequence ==
    [][variant = "modular"
       => \A c \in Conns :
             /\ conns'[c].nwritten = conns'[c].nread
             /\ (conns[c].state = "open" /\ conns'[c].state = "closed")
                   => conns'[c].frame = "readfail"]_vars

\* C24: in the Badger-backed server with an upstream configured, a GET whose
\* storage reads succeed and whose upstream answers makes exactly one upstream
\* fetch for every requested key that local storage does not hold and the
\* upstream holds, returns the upstream's value for it, and stores that value
\* locally, expiring after the configured TTL when the TTL is positive.
C24_BadgerFetchesOnMiss ==
    [][(/\ variant = "badger"
        /\ Serving("GET")
        /\ upstreamURL # ""
        /\ obs'.up = "ok"
        /\ obs'.failed = {})
       => \A i \in 1..Len(req'.keys) :
             LET k == req'.keys[i]
             IN (~BadgerLive(disk[k]) /\ k \in UpstreamHas)
                   => /\ resp'.type = "OK"
                      /\ obs'.calls[k] = 1
                      /\ resp'.data[k] = UnmarshalIface(UpstreamValue(k))
                      /\ disk'[k] = BadgerItem(UnmarshalIface(UpstreamValue(k)),
                                               IF cacheTTL > 0 THEN now + cacheTTL
                                               ELSE 0)]_vars

\* the entry is a wrapper that has not reached its expiry
LiveEntry(b) ==
    /\ b # NoEntry
    /\ ~UnmarshalEntry(b).err
    /\ (UnmarshalEntry(b).Expiry = MaxInt64 \/ now < UnmarshalEntry(b).Expiry)

\* C23: in the monolithic server, when UPDATEs of the same key from different
\* connections have all returned OK and the storage write applied last to the
\* key is one of theirs, the key's stored value is the value of that UPDATE;
\* and a GET whose storage read finds an entry last written by an UPDATE
\* returns that UPDATE's value.
C23_LastWriteWins ==
    [][/\ \A k \in Keys :
             LET U == {c \in Conns : /\ tasks'.run[c].op = "UPDATE"
                                     /\ tasks'.run[c].key = k}
                 l == tasks'.last[k]
             IN (/\ U # {}
                 /\ \A c \in U : tasks'.run[c].pc = "returned"
                 /\ l.op = "UPDATE"
                 /\ l.who \in U)
                => /\ ~UnmarshalEntry(disk'[k]).err
                   /\ UnmarshalEntry(disk'[k]).Value = tasks'.run[l.who].val
       /\ \A c \in Conns :
             LET k == tasks'.run[c].key
             IN (/\ Free(c)
                 /\ tasks'.run[c].op = "GET"
                 /\ tasks'.run[c].pc = "reply"
                 /\ tasks.last[k].op = "UPDATE")
                => tasks'.run[c].out = UnmarshalIface(ConcValue(tasks.last[k].who))
      ]_vars

\* both connections have had their UPDATE of the same key answered OK
C23_Witness ==
    \E k \in Keys :
       /\ \A c \in Conns : /\ tasks.run[c].op = "UPDATE"
                            /\ tasks.run[c].key = k
                            /\ tasks.run[c].pc = "returned"
       /\ tasks.last[k].op = "UPDATE"
       /\ ~UnmarshalEntry(disk[k]).err
       /\ UnmarshalEntry(disk[k]).Value = ConcValue(tasks.last[k].who)

\* C30: no batch flush of the cleaner and no lazy delete of a read removes an
\* entry that an UPDATE wrote and had answered OK and that has not reached
\* its expiry.
C30_FreshEntrySurvives ==
    [][\A k \in Keys :
          (/\ tasks.last[k].op = "UPDATE"
           /\ tasks.last[k].acked
           /\ LiveEntry(disk[k])
           /\ disk'[k] # disk[k])
          => tasks'.last[k].op \notin {"flush", "lazydelete"}]_vars

\* C31: the write with which a GET populates a key from the upstream never
\* replaces an unexpired entry that an UPDATE wrote and had answered OK after
\* that GET had found the key missing.
C31_PopulateKeepsUpdate ==
    [][\A k \in Keys :
          (/\ tasks.last[k].op = "UPDATE"
           /\ tasks.last[k].acked
           /\ LiveEntry(disk[k]))
          => tasks'.last[k].op # "fill"]_vars

\* C32: for every wrapped entry in the store of the monolithic server and
\* every clock value, LIST includes the entry exactly when a GET of its key
\* returns it, and a sweep of the cleaner deletes it exactly when a GET of its
\* key treats it as expired.
C32_SameLivenessDecision ==
    variant = "mono"
      => \A k \in Keys :
            (disk[k].t = "obj" /\ "expiry" \in DOMAIN disk[k].f)
            => LET replicaMode == upstreamURL = ""
                   got == readEntry(disk, k, cacheTTL, replicaMode, {}).ok
                   listed == k \in DOMAIN listAllEntries(disk, replicaMode)
                   swept == startCleaner(disk, janitorChunk, {}).db[k] = NoEntry
               IN /\ listed <=> got
                  /\ swept <=> ~got

\* C33: a GET that is answered ERR leaves every key that local storage did
\* not serve (no entry, or an expired one) without a new entry: the key's
\* entry is as it was or has been deleted.
C33_FailedGetWritesNothing ==
    [][(Serving("GET") /\ resp'.type = "ERR")
       => \A k \in Keys :
             LocalMiss(disk[k]) => (disk'[k] = disk[k] \/ disk'[k] = NoEntry)]_vars

====
